---- MODULE Spec2Model ----
(***************************************************************************)
(* Rule-engine configuration (src/rule_engine/config.py): the module-level *)
(* DEFAULT_CONFIG, RuleConfig instances, the override files they load and  *)
(* save, the recursive merge and the policy queries.                       *)
(*                                                                         *)
(* Python values are tagged records.  A dict keeps its insertion order in  *)
(* `keys` and its items in `val`.  Floats are counted in tenths            *)
(* (2.0 -> 20, 0.2 -> 2).  The four section objects of DEFAULT_CONFIG are   *)
(* the only objects more than one reference can reach (dict.copy() is      *)
(* shallow), so they live in `heap` and are referred to by Ref; every      *)
(* other object is reachable from one parent only and is held inline.      *)
(***************************************************************************)
EXTENDS Integers, Sequences, FiniteSets, TLC

\* heap    the four section objects DEFAULT_CONFIG holds (lines 7-38), by key
\* config  self.config of each RuleConfig object (line 42), Unset before creation
\* files   what is on disk at each path load_config and save_config open
\* lastOp  the last call: constructor, load_config or save_config, the object,
\*         the path, and the exception its handler caught ("none" if none)
\* nOps    number of calls made
\* mcall   a direct call of _merge_configs: its arguments, the object `base`
\*         after the last call (res) and before it (prev)
\* reload  a load_config call another thread is inside of: the object, the
\*         document, the next item of the merge loop, self.config at entry
\* ollama  a call of analyze_with_ollama: its model argument, its position,
\*         the requests sent so far and what it returned
\* providerCall  the API keys utils/config.py read at import and its last call
VARIABLES heap, config, files, lastOp, nOps, mcall, reload, ollama, providerCall

vars == <<heap, config, files, lastOp, nOps, mcall, reload, ollama, providerCall>>

(* ---------------------------------------------------------------- bounds *)

\* Number of constructor / load_config / save_config calls explored.
MaxOps == 3

\* Number of distinct scalar values in the generated merge arguments.
MaxLeaves == 2

\* Number of load_config calls a second thread makes while readers query.
MaxReloads == 1

(* ---------------------------------------------------------- Python values *)

Str(s) == [t |-> "str", s |-> s]

Bool(b) == [t |-> "bool", b |-> b]

Num(n) == [t |-> "num", n |-> n]

None == [t |-> "none"]

List(items) == [t |-> "list", items |-> items]

Dict(keys, val) == [t |-> "dict", keys |-> keys, val |-> val]

Ref(a) == [t |-> "ref", a |-> a]

Raise(e) == [t |-> "raise", e |-> e]

SeqRange(s) == {s[i] : i \in 1..Len(s)}

\* A dict literal {k1: v1, k2: v2, ...} from its items in source order.
DictOf(items) ==
    Dict([i \in 1..Len(items) |-> items[i][1]],
         [k \in {items[i][1] : i \in 1..Len(items)} |->
            items[CHOOSE i \in 1..Len(items) : items[i][1] = k][2]])

EmptyDict == Dict(<<>>, <<>>)

isinstance_dict(v) == v.t = "dict"

HasKey(d, k) == k \in SeqRange(d.keys)

\* d[k] = v on a dict: an existing key keeps its position, a new key is appended.
DictSet(d, k, v) ==
    IF HasKey(d, k)
    THEN Dict(d.keys, [d.val EXCEPT ![k] = v])
    ELSE Dict(Append(d.keys, k), [x \in SeqRange(d.keys) \cup {k} |-> IF x = k THEN v ELSE d.val[x]])

(* ------------------------------------------------------- DEFAULT_CONFIG *)

RuleEntry(enabled, severity) ==
    DictOf(<< <<"enabled", Bool(enabled)>>, <<"severity", Str(severity)>> >>)

CategoryEntry(enabled) == DictOf(<< <<"enabled", Bool(enabled)>> >>)

DefaultRules ==
    DictOf(<<
      <<"python", DictOf(<<
          <<"python_naming_convention", RuleEntry(TRUE, "medium")>>,
          <<"python_unused_import", RuleEntry(TRUE, "low")>>,
          <<"python_except_pass", RuleEntry(TRUE, "high")>>,
          <<"python_sql_injection", RuleEntry(TRUE, "critical")>>,
          <<"python_nested_loop", RuleEntry(TRUE, "medium")>> >>)>>,
      <<"javascript", DictOf(<<
          <<"javascript_var_usage", RuleEntry(TRUE, "medium")>>,
          <<"javascript_equality", RuleEntry(TRUE, "high")>>,
          <<"javascript_eval", RuleEntry(TRUE, "critical")>>,
          <<"javascript_array_foreach", RuleEntry(TRUE, "low")>> >>)>> >>)

DefaultCategories ==
    DictOf(<<
      <<"quality", CategoryEntry(TRUE)>>,
      <<"bug", CategoryEntry(TRUE)>>,
      <<"security", CategoryEntry(TRUE)>>,
      <<"performance", CategoryEntry(TRUE)>>,
      <<"style", CategoryEntry(TRUE)>>,
      <<"maintainability", CategoryEntry(TRUE)>> >>)

DefaultSeverityLevels == List(<<Str("critical"), Str("high"), Str("medium"), Str("low")>>)

DefaultRatingWeights ==
    DictOf(<<
      <<"critical", Num(20)>>,
      <<"high", Num(10)>>,
      <<"medium", Num(5)>>,
      <<"low", Num(2)>> >>)

Sections == <<"rules", "categories", "severity_levels", "rating_weights">>

\* The literal of lines 7-38, every level inline: what DEFAULT_CONFIG is when
\* the module is imported.
BuiltinLiteral ==
    DictOf(<<
      <<"rules", DefaultRules>>,
      <<"categories", DefaultCategories>>,
      <<"severity_levels", DefaultSeverityLevels>>,
      <<"rating_weights", DefaultRatingWeights>> >>)

\* The module-level name DEFAULT_CONFIG: its top-level dict is never assigned
\* to, its four values are the objects held in `heap`.
DEFAULT_CONFIG ==
    Dict(Sections, [k \in SeqRange(Sections) |-> Ref(k)])

InitialHeap == [k \in SeqRange(Sections) |-> BuiltinLiteral.val[k]]

\* dict.copy(): a new top-level dict holding the same value objects.
ShallowCopy(d) == Dict(d.keys, d.val)

\* The value a reference path sees: every Ref replaced by the object it names.
RECURSIVE Deref(_, _)
Deref(h, v) ==
    CASE v.t = "ref" -> Deref(h, h[v.a])
      [] v.t = "dict" -> Dict(v.keys, [k \in SeqRange(v.keys) |-> Deref(h, v.val[k])])
      [] OTHER -> v

(* ------------------------------------------------------- _merge_configs *)

\* The object a dict slot holds: a shared section object or an inline value.
Target(h, v) == IF v.t = "ref" THEN h[v.a] ELSE v

RECURSIVE merge_configs(_, _, _)
RECURSIVE MergeItems(_, _, _, _)

\* Line 61: the recursive call on the object the slot d[key] holds, which it
\* mutates in place (in the heap when it is a shared section object).
MergeRecurse(h, d, key, value) ==
    LET cur == d.val[key] IN
    IF cur.t = "ref"
    THEN LET r == merge_configs(h, h[cur.a], value) IN
         [h |-> [r.h EXCEPT ![cur.a] = r.d], d |-> d]
    ELSE LET r == merge_configs(h, cur, value) IN
         [h |-> r.h, d |-> DictSet(d, key, r.d)]

\* dict.update semantics: every override value replaces the base value.
MergeItemUpdate(h, d, key, value) ==
    [h |-> h, d |-> DictSet(d, key, value)]

\* A mapping of the base is never replaced by a non-mapping override value.
MergeItemKeepMapping(h, d, key, value) ==
    IF HasKey(d, key) /\ isinstance_dict(Target(h, d.val[key]))
    THEN IF isinstance_dict(value) THEN MergeRecurse(h, d, key, value) ELSE [h |-> h, d |-> d]
    ELSE [h |-> h, d |-> DictSet(d, key, value)]

\* A mapping override for a key the base holds no mapping at creates an empty
\* mapping there and leaves filling it to the next merge.
MergeItemLazyCreate(h, d, key, value) ==
    IF HasKey(d, key) /\ isinstance_dict(Target(h, d.val[key])) /\ isinstance_dict(value)
    THEN MergeRecurse(h, d, key, value)
    ELSE [h |-> h, d |-> DictSet(d, key, IF isinstance_dict(value) THEN EmptyDict ELSE value)]

\* One iteration of the loop of _merge_configs (lines 60-63) on the dict
\* object d: recursion when both values are mappings, otherwise the slot
\* d[key] is rebound to the override's value.
MergeItem(h, d, key, value) ==
    IF HasKey(d, key) /\ isinstance_dict(Target(h, d.val[key])) /\ isinstance_dict(value)
    THEN MergeRecurse(h, d, key, value)
    ELSE [h |-> h, d |-> DictSet(d, key, value)]

\* for key, value in user_config.items(), from the n-th item on.
MergeItems(h, d, user_config, n) ==
    IF n > Len(user_config.keys)
    THEN [h |-> h, d |-> d]
    ELSE LET key == user_config.keys[n]
             r == MergeItem(h, d, key, user_config.val[key])
         IN MergeItems(r.h, r.d, user_config, n + 1)

\* The merge builds its result from the override's items alone.
merge_configs_from_empty(h, default_config, user_config) ==
    MergeItems(h, EmptyDict, user_config, 1)

\* _merge_configs(default_config, user_config): the heap and the dict object
\* default_config after the in-place merge.
merge_configs(h, default_config, user_config) ==
    MergeItems(h, default_config, user_config, 1)

(* ------------------------------------------------------------ YAML, files *)

\* Every mapping key of the model, in Python's string order (sorted()).
KeyOrder ==
    << "Python", "alpha_rule", "bug", "categories", "critical", "enabled", "high",
       "javascript", "javascript_array_foreach", "javascript_equality",
       "javascript_eval", "javascript_var_usage", "low", "maintainability",
       "medium", "performance", "python", "python_except_pass",
       "python_naming_convention", "python_nested_loop", "python_sql_injection",
       "python_unused_import", "quality", "rating_weights", "ruby", "ruby_eval",
       "rules", "security",
       "severity", "severity_levels", "style", "zeta_rule" >>

sorted(keys) == SelectSeq(KeyOrder, LAMBDA k : k \in SeqRange(keys))

\* A file: absent, text that is no YAML document, or a YAML document, held as
\* its node tree with every mapping's keys in the order the text lists them.
Missing == [t |-> "missing"]

Malformed == [t |-> "malformed"]

Text(v) == [t |-> "text", v |-> v]

\* The node tree yaml.dump emits: sort_keys defaults to True, so every
\* mapping is written with its keys sorted.
RECURSIVE represent(_)
represent(v) ==
    IF v.t = "dict"
    THEN Dict(sorted(v.keys), [k \in SeqRange(v.keys) |-> represent(v.val[k])])
    ELSE v

yaml_dump(v) == Text(represent(v))

\* yaml.safe_load(f): the document's value, mappings in document order.
yaml_safe_load(content) ==
    IF content.t = "text" THEN content.v ELSE Raise("YAMLError")

\* bool(v)
Truthy(v) ==
    CASE v.t = "dict" -> Len(v.keys) > 0
      [] v.t = "list" -> Len(v.items) > 0
      [] v.t = "str" -> v.s # ""
      [] v.t = "bool" -> v.b
      [] v.t = "num" -> v.n # 0
      [] OTHER -> FALSE

Override(lang, rule, setting, value) ==
    DictOf(<< <<"rules", DictOf(<< <<lang, DictOf(<< <<rule,
        DictOf(<< <<setting, value>> >>)>> >>)>> >>)>> >>)

\* The override files on disk.
FixtureFiles ==
    [ sev_high |-> Text(Override("python", "python_unused_import", "severity", Str("high"))),
      python_disabled |-> Text(DictOf(<< <<"rules", DictOf(<< <<"python", Str("disabled")>> >>)>> >>)),
      sql_off |-> Text(Override("python", "python_sql_injection", "enabled", Bool(FALSE))),
      custom_rules |-> Text(DictOf(<< <<"rules", DictOf(<< <<"python", DictOf(<<
            <<"zeta_rule", RuleEntry(TRUE, "high")>>,
            <<"alpha_rule", RuleEntry(TRUE, "low")>> >>)>> >>)>> >>)),
      ruby_rule |-> Text(Override("ruby", "ruby_eval", "severity", Str("blocker"))),
      rules_none |-> Text(DictOf(<< <<"rules", Str("none")>> >>)),
      cat_off |-> Text(DictOf(<<
            <<"categories", DictOf(<< <<"security", CategoryEntry(FALSE)>> >>)>>,
            <<"rating_weights", DictOf(<< <<"low", Num(5)>> >>)>> >>)),
      python_case |-> Text(Override("Python", "python_except_pass", "enabled", Bool(FALSE))),
      bad_shapes |-> Text(DictOf(<<
            <<"rules", None>>,
            <<"categories", DictOf(<< <<"style", Str("off")>> >>)>>,
            <<"rating_weights", None>> >>)),
      empty |-> Text(None),
      empty_map |-> Text(EmptyDict),
      list_doc |-> Text(List(<<Str("rules")>>)),
      scalar_doc |-> Text(Str("rules")),
      malformed |-> Malformed,
      missing |-> Missing ]

\* Where save_config writes: a writable file, and a path whose directory
\* does not exist.
SavePath == "saved"

BadSavePath == "no_such_dir/saved"

LoadPaths == DOMAIN FixtureFiles \cup {SavePath}

NoPath == "None"

Instances == {"A", "B"}

Unset == [t |-> "unset"]

os_path_exists(fs, path) == fs[path].t # "missing"

(* ------------------------------------------------------ Python operators *)

\* The argument is used as given, without lower().
LowerOmitted(s) == s

\* str.lower() on the strings the queries are asked with.
Lower(s) ==
    CASE s = "Python" -> "python"
      [] s = "PYTHON" -> "python"
      [] s = "JavaScript" -> "javascript"
      [] s = "Critical" -> "critical"
      [] s = "HIGH" -> "high"
      [] s = "MEDIUM" -> "medium"
      [] s = "Low" -> "low"
      [] OTHER -> s

\* a in b on two strings: substring test.  No string of the model is a
\* proper substring of a string value a configuration holds.
IsSubstring(a, b) == a = b

\* `s in c` for a string s.
PyIn(s, c) ==
    CASE c.t = "dict" -> Bool(HasKey(c, s))
      [] c.t = "str" -> Bool(IsSubstring(s, c.s))
      [] c.t = "list" -> Bool(Str(s) \in SeqRange(c.items))
      [] OTHER -> Raise("TypeError")

\* `c[s]` for a string s.
PyGetItem(c, s) ==
    CASE c.t = "dict" -> IF HasKey(c, s) THEN c.val[s] ELSE Raise("KeyError")
      [] c.t = "raise" -> c
      [] OTHER -> Raise("TypeError")

(* ---------------------------------------------------------------- queries *)
\* Each query is given self.config as the value its reads see (Deref).

\* The condition of lines 75 and 81:
\* language.lower() in rules and rule_name in rules[language.lower()]
RuleConfigured(cfg, rule_name, language) ==
    LET rules == cfg.val["rules"]
        inRules == PyIn(Lower(language), rules)
    IN IF inRules.t = "raise" \/ ~inRules.b
       THEN inRules
       ELSE LET bucket == PyGetItem(rules, Lower(language)) IN
            IF bucket.t = "raise" THEN bucket ELSE PyIn(rule_name, bucket)

is_rule_enabled(cfg, rule_name, language) ==
    LET found == RuleConfigured(cfg, rule_name, language) IN
    IF found.t = "raise" THEN found
    ELSE IF found.b
         THEN PyGetItem(PyGetItem(PyGetItem(cfg.val["rules"], Lower(language)), rule_name), "enabled")
         ELSE Bool(TRUE)

get_rule_severity(cfg, rule_name, language, default_severity) ==
    LET found == RuleConfigured(cfg, rule_name, language) IN
    IF found.t = "raise" THEN found
    ELSE IF found.b
         THEN PyGetItem(PyGetItem(PyGetItem(cfg.val["rules"], Lower(language)), rule_name), "severity")
         ELSE Str(default_severity)

is_category_enabled(cfg, category) ==
    LET found == PyIn(category, cfg.val["categories"]) IN
    IF found.t = "raise" THEN found
    ELSE IF found.b
         THEN PyGetItem(PyGetItem(cfg.val["categories"], category), "enabled")
         ELSE Bool(TRUE)

\* The weight is looked up under the severity as given, without lower().
get_rating_weight_exact_case(cfg, severity) ==
    LET weights == cfg.val["rating_weights"] IN
    IF weights.t # "dict" THEN Raise("AttributeError")
    ELSE IF HasKey(weights, severity) THEN weights.val[severity] ELSE Num(2)

get_rating_weight(cfg, severity) ==
    LET weights == cfg.val["rating_weights"] IN
    IF weights.t # "dict" THEN Raise("AttributeError")
    ELSE IF HasKey(weights, Lower(severity)) THEN weights.val[Lower(severity)] ELSE Num(2)

\* Every rule name of the bucket is listed, whatever its enabled flag.
EnabledFromAll(bucket, n) ==
    List([k \in 1..Len(bucket.keys) |-> Str(bucket.keys[k])])

\* The list comprehension of lines 98-99 over bucket.items(), from the n-th
\* item on.
RECURSIVE EnabledFrom(_, _)
EnabledFrom(bucket, n) ==
    IF n > Len(bucket.keys) THEN List(<<>>)
    ELSE LET rule == bucket.keys[n]
             enabled == PyGetItem(bucket.val[rule], "enabled")
         IN IF enabled.t = "raise" THEN enabled
            ELSE LET rest == EnabledFrom(bucket, n + 1) IN
                 IF rest.t = "raise" THEN rest
                 ELSE IF Truthy(enabled) THEN List(<<Str(rule)>> \o rest.items) ELSE rest

get_enabled_rules(cfg, language) ==
    LET rules == cfg.val["rules"]
        inRules == PyIn(Lower(language), rules)
    IN IF inRules.t = "raise" THEN inRules
       ELSE IF inRules.b
            THEN LET bucket == PyGetItem(rules, Lower(language)) IN
                 IF bucket.t = "raise" THEN bucket
                 ELSE IF bucket.t # "dict" THEN Raise("AttributeError")
                 ELSE EnabledFrom(bucket, 1)
            ELSE List(<<>>)

(* ------------------------------------------------------------- RuleConfig *)

\* The file object is closed only when the block ends without an exception.
with_exit_on_success(handle, exc) == IF exc = "none" THEN "closed" ELSE handle

\* `with open(...) as f:` leaves its block (lines 49 and 68), normally or
\* by the exception exc: the file object is closed.
with_exit(handle, exc) == "closed"

\* A load that fails puts the instance back on a fresh copy of the defaults.
load_config_reset_on_failure(h, cfg, fs, config_path) ==
    IF fs[config_path].t = "missing"
    THEN [h |-> h, d |-> ShallowCopy(DEFAULT_CONFIG), caught |-> "FileNotFoundError",
          handle |-> "none"]
    ELSE LET user_config == yaml_safe_load(fs[config_path]) IN
         IF user_config.t = "raise"
         THEN [h |-> h, d |-> ShallowCopy(DEFAULT_CONFIG), caught |-> user_config.e,
               handle |-> "closed"]
         ELSE IF Truthy(user_config) /\ isinstance_dict(user_config)
              THEN LET r == merge_configs(h, cfg, user_config) IN
                   [h |-> r.h, d |-> r.d, caught |-> "none", handle |-> "closed"]
              ELSE [h |-> h, d |-> cfg, caught |-> "none", handle |-> "closed"]

\* The document is merged whenever it is truthy, mapping or not: .items() on
\* a list or a string raises AttributeError inside the try block.
load_config_any_truthy(h, cfg, fs, config_path) ==
    IF fs[config_path].t = "missing"
    THEN [h |-> h, d |-> cfg, caught |-> "FileNotFoundError", handle |-> "none"]
    ELSE LET user_config == yaml_safe_load(fs[config_path]) IN
         IF user_config.t = "raise"
         THEN [h |-> h, d |-> cfg, caught |-> user_config.e, handle |-> "closed"]
         ELSE IF Truthy(user_config)
              THEN IF isinstance_dict(user_config)
                   THEN LET r == merge_configs(h, cfg, user_config) IN
                        [h |-> r.h, d |-> r.d, caught |-> "none", handle |-> "closed"]
                   ELSE [h |-> h, d |-> cfg, caught |-> "AttributeError", handle |-> "closed"]
              ELSE [h |-> h, d |-> cfg, caught |-> "none", handle |-> "closed"]

\* load_config (lines 46-55) on the instance whose self.config is cfg: the
\* heap and self.config afterwards, the exception the handler caught, and
\* the file object the call opened ("none" when open() raised).
load_config(h, cfg, fs, config_path) ==
    IF fs[config_path].t = "missing"
    THEN [h |-> h, d |-> cfg, caught |-> "FileNotFoundError", handle |-> "none"]
    ELSE LET user_config == yaml_safe_load(fs[config_path]) IN
         IF user_config.t = "raise"
         THEN [h |-> h, d |-> cfg, caught |-> user_config.e,
               handle |-> with_exit("open", user_config.e)]
         ELSE IF Truthy(user_config) /\ isinstance_dict(user_config)
              THEN LET r == merge_configs(h, cfg, user_config) IN
                   [h |-> r.h, d |-> r.d, caught |-> "none", handle |-> with_exit("open", "none")]
              ELSE [h |-> h, d |-> cfg, caught |-> "none", handle |-> with_exit("open", "none")]

\* The object i is created: RuleConfig(config_path) (lines 41-44).
RuleConfigInit(i, config_path) ==
    /\ nOps < MaxOps
    /\ config[i] = Unset
    /\ LET fresh == ShallowCopy(DEFAULT_CONFIG) IN
       IF config_path # NoPath /\ os_path_exists(files, config_path)
       THEN LET r == load_config(heap, fresh, files, config_path) IN
            /\ heap' = r.h
            /\ config' = [config EXCEPT ![i] = r.d]
            /\ lastOp' = [op |-> "init", inst |-> i, path |-> config_path,
                          caught |-> r.caught, handle |-> r.handle]
       ELSE /\ heap' = heap
            /\ config' = [config EXCEPT ![i] = fresh]
            /\ lastOp' = [op |-> "init", inst |-> i, path |-> config_path,
                          caught |-> "none", handle |-> "none"]
    /\ nOps' = nOps + 1
    /\ UNCHANGED <<files, mcall, reload, ollama, providerCall>>

\* i.load_config(config_path)
LoadConfig(i, config_path) ==
    /\ nOps < MaxOps
    /\ config[i] # Unset
    /\ LET r == load_config(heap, config[i], files, config_path) IN
       /\ heap' = r.h
       /\ config' = [config EXCEPT ![i] = r.d]
       /\ lastOp' = [op |-> "load", inst |-> i, path |-> config_path,
                     caught |-> r.caught, handle |-> r.handle]
    /\ nOps' = nOps + 1
    /\ UNCHANGED <<files, mcall, reload, ollama, providerCall>>

\* save_config keeps in memory the document it wrote: keys sorted, every
\* section its own object.
SaveConfigNormalising(i, config_path) ==
    /\ nOps < MaxOps
    /\ config[i] # Unset
    /\ IF config_path = BadSavePath
       THEN /\ files' = files
            /\ lastOp' = [op |-> "save", inst |-> i, path |-> config_path,
                          caught |-> "FileNotFoundError", handle |-> "none"]
       ELSE /\ files' = [files EXCEPT ![config_path] = yaml_dump(Deref(heap, config[i]))]
            /\ lastOp' = [op |-> "save", inst |-> i, path |-> config_path,
                          caught |-> "none", handle |-> "closed"]
    /\ config' = [config EXCEPT ![i] = represent(Deref(heap, config[i]))]
    /\ nOps' = nOps + 1
    /\ UNCHANGED <<heap, mcall, reload, ollama, providerCall>>

\* i.save_config(config_path) (lines 65-71)
SaveConfig(i, config_path) ==
    /\ nOps < MaxOps
    /\ config[i] # Unset
    /\ IF config_path = BadSavePath
       THEN /\ files' = files
            /\ lastOp' = [op |-> "save", inst |-> i, path |-> config_path,
                          caught |-> "FileNotFoundError", handle |-> "none"]
       ELSE /\ files' = [files EXCEPT ![config_path] = yaml_dump(Deref(heap, config[i]))]
            /\ lastOp' = [op |-> "save", inst |-> i, path |-> config_path,
                          caught |-> "none", handle |-> with_exit("open", "none")]
    /\ nOps' = nOps + 1
    /\ UNCHANGED <<heap, config, mcall, reload, ollama, providerCall>>

\* No call is in progress.
Idle == [st |-> "idle"]

\* The program after `import` and a first A = RuleConfig(config_path).
Init ==
    \E config_path \in LoadPaths \cup {NoPath} :
      LET fs == [p \in LoadPaths |-> IF p = SavePath THEN Missing ELSE FixtureFiles[p]]
          fresh == ShallowCopy(DEFAULT_CONFIG)
          r == IF config_path # NoPath /\ os_path_exists(fs, config_path)
               THEN load_config(InitialHeap, fresh, fs, config_path)
               ELSE [h |-> InitialHeap, d |-> fresh, caught |-> "none", handle |-> "none"]
      IN /\ heap = r.h
         /\ config = [i \in Instances |-> IF i = "A" THEN r.d ELSE Unset]
         /\ files = fs
         /\ lastOp = [op |-> "init", inst |-> "A", path |-> config_path,
                      caught |-> r.caught, handle |-> r.handle]
         /\ nOps = 0
         /\ mcall = Idle
         /\ reload = Idle
         /\ ollama = Idle
         /\ providerCall = Idle

\* The first object is created with any path (Init); the paths later objects
\* are created with: none, one with no file, the file save_config wrote.
LaterInitPaths == {NoPath, "missing", SavePath}

Next ==
    \/ \E i \in Instances, p \in LaterInitPaths : RuleConfigInit(i, p)
    \/ \E i \in Instances, p \in LoadPaths : LoadConfig(i, p)
    \/ \E i \in Instances, p \in {SavePath, BadSavePath} : SaveConfig(i, p)

Spec == Init /\ [][Next]_vars

(* ------------------------------------- _merge_configs called on its own *)

\* _merge_configs on values that hold no shared object.
PureMerge(base, user_config) == merge_configs(<<>>, base, user_config).d

GenKeySeqs == {<<>>, <<"python">>, <<"javascript">>, <<"python", "javascript">>}

GenLeaves == {Num(n) : n \in 1..MaxLeaves}

DictsOver(values) ==
    UNION {{Dict(ks, f) : f \in [SeqRange(ks) -> values]} : ks \in GenKeySeqs}

\* Every mapping of nesting depth at most two over the generated keys.
GenDicts == DictsOver(GenLeaves \cup DictsOver(GenLeaves))

\* The override files that parse to a non-empty mapping.
FixtureMappings ==
    {FixtureFiles[p].v : p \in {q \in DOMAIN FixtureFiles :
        FixtureFiles[q].t = "text" /\ isinstance_dict(FixtureFiles[q].v)}}

MergeInputs == (GenDicts \X GenDicts) \cup ({BuiltinLiteral} \X FixtureMappings)

MergeInit ==
    /\ heap = InitialHeap
    /\ config = [i \in Instances |-> Unset]
    /\ files = [p \in LoadPaths |-> IF p = SavePath THEN Missing ELSE FixtureFiles[p]]
    /\ lastOp = [op |-> "import", inst |-> "none", path |-> NoPath, caught |-> "none",
                 handle |-> "none"]
    /\ nOps = 0
    /\ reload = Idle
    /\ ollama = Idle
    /\ providerCall = Idle
    /\ \E args \in MergeInputs :
         mcall = [st |-> "args", base |-> args[1], over |-> args[2],
                  prev |-> args[1], res |-> args[1]]

\* _merge_configs(base, over): res is the object `base` after the call.
MergeOnce ==
    /\ mcall.st = "args"
    /\ mcall' = [mcall EXCEPT !.st = "once", !.res = PureMerge(mcall.base, mcall.over)]
    /\ UNCHANGED <<heap, config, files, lastOp, nOps, reload, ollama, providerCall>>

\* The same call again on the object the first call left.
MergeTwice ==
    /\ mcall.st = "once"
    /\ mcall' = [mcall EXCEPT !.st = "twice", !.prev = mcall.res,
                              !.res = PureMerge(mcall.res, mcall.over)]
    /\ UNCHANGED <<heap, config, files, lastOp, nOps, reload, ollama, providerCall>>

MergeNext == MergeOnce \/ MergeTwice

MergeSpec == MergeInit /\ [][MergeNext]_vars

(* ------------------------------------------------------- what callers see *)

QueryRules ==
    {"python_sql_injection", "python_unused_import", "javascript_eval",
     "zeta_rule", "alpha_rule", "ruby_eval", "unknown_rule"}

QueryLanguages == {"python", "Python", "javascript", "ruby", "go"}

QueryCategories == {"security", "Security", "style", "unknown"}

QuerySeverities == {"critical", "HIGH", "medium", "low", "blocker"}

QueryDefaults == {"low", "info"}

\* The answers of every rule, category, weight and enabled-rules query on a
\* configuration value.
Answers(cfg) ==
    [ enabled |-> [r \in QueryRules, l \in QueryLanguages |-> is_rule_enabled(cfg, r, l)],
      severity |-> [r \in QueryRules, l \in QueryLanguages, d \in QueryDefaults |->
                      get_rule_severity(cfg, r, l, d)],
      category |-> [c \in QueryCategories |-> is_category_enabled(cfg, c)],
      weight |-> [v \in QuerySeverities |-> get_rating_weight(cfg, v)],
      rules |-> [l \in QueryLanguages |-> get_enabled_rules(cfg, l)] ]

\* self.config of instance i as its reads see it.
Held(i) == Deref(heap, config[i])

\* The last call was i = RuleConfig(...) that loaded nothing (no path given,
\* or no file at the path).
ConstructedPlain(i) ==
    /\ lastOp.op = "init" /\ lastOp.inst = i
    /\ (lastOp.path = NoPath \/ ~os_path_exists(files, lastOp.path))

\* The document the last load read, when it parsed to a non-empty mapping.
LoadedMapping ==
    IF lastOp.op \in {"init", "load"} /\ lastOp.path # NoPath /\ files[lastOp.path].t = "text"
       /\ isinstance_dict(files[lastOp.path].v) /\ Truthy(files[lastOp.path].v)
    THEN files[lastOp.path].v
    ELSE None

(* ----------------------------------- readers while another thread reloads *)
\* RuleConfig takes no lock.  One thread calls load_config on an object while
\* reader threads call its queries; the threads are switched between two
\* iterations of the loop of _merge_configs on self.config (line 59).

\* The files the reloading thread loads.
ReloadPaths == {"cat_off", "bad_shapes", "sev_high", "malformed", "empty_map"}

\* The calls the reader threads make.
ReaderQueries ==
    {[f |-> "is_rule_enabled", a |-> <<r, l>>] :
        r \in {"python_sql_injection", "ruby_eval", "unknown_rule"}, l \in {"Python", "ruby"}}
    \cup {[f |-> "get_rule_severity", a |-> <<r, l, "info">>] :
        r \in {"python_unused_import", "ruby_eval"}, l \in {"python", "go"}}
    \cup {[f |-> "is_category_enabled", a |-> <<c>>] : c \in QueryCategories}
    \cup {[f |-> "get_rating_weight", a |-> <<v>>] : v \in {"HIGH", "low", "blocker"}}
    \cup {[f |-> "get_enabled_rules", a |-> <<l>>] : l \in {"python", "Python", "go"}}

\* What the call q returns, or the exception it raises, on self.config = cfg.
Call(cfg, q) ==
    CASE q.f = "is_rule_enabled" -> is_rule_enabled(cfg, q.a[1], q.a[2])
      [] q.f = "get_rule_severity" -> get_rule_severity(cfg, q.a[1], q.a[2], q.a[3])
      [] q.f = "is_category_enabled" -> is_category_enabled(cfg, q.a[1])
      [] q.f = "get_rating_weight" -> get_rating_weight(cfg, q.a[1])
      [] q.f = "get_enabled_rules" -> get_enabled_rules(cfg, q.a[1])

\* A rule query creates the language's bucket when the rule table lacks it
\* (rules.setdefault(language.lower(), {})).
QueryCreatingBucket(i, q) ==
    /\ config[i] # Unset
    /\ LET result == Call(Held(i), q)
           rules == config[i].val["rules"]
           missing == /\ q.f \in {"is_rule_enabled", "get_rule_severity"}
                      /\ isinstance_dict(Target(heap, rules))
                      /\ ~HasKey(Target(heap, rules), Lower(q.a[2]))
       IN /\ lastOp' = [op |-> "query", inst |-> i, path |-> NoPath,
                        caught |-> "none", handle |-> "none", q |-> q, result |-> result]
          /\ IF missing /\ rules.t = "ref"
             THEN heap' = [heap EXCEPT ![rules.a] = DictSet(@, Lower(q.a[2]), EmptyDict)]
             ELSE heap' = heap
          /\ IF missing /\ rules.t # "ref"
             THEN config' = [config EXCEPT ![i] =
                               DictSet(@, "rules", DictSet(rules, Lower(q.a[2]), EmptyDict))]
             ELSE config' = config
    /\ UNCHANGED <<files, nOps, mcall, reload, ollama, providerCall>>

\* A reader thread calls one query on object i (lines 73-100): the methods
\* assign to nothing, the caller gets the result or the exception.
Query(i, q) ==
    /\ config[i] # Unset
    /\ lastOp' = [op |-> "query", inst |-> i, path |-> NoPath,
                  caught |-> "none", handle |-> "none", q |-> q, result |-> Call(Held(i), q)]
    /\ UNCHANGED <<heap, config, files, nOps, mcall, reload, ollama, providerCall>>

\* The reloading thread enters i.load_config(config_path): open, parse and
\* the test of line 51.  A call that merges nothing returns at once; otherwise
\* the thread stands before the first iteration of the merge loop.
BeginLoad(i, config_path) ==
    /\ reload = Idle
    /\ nOps < MaxReloads
    /\ config[i] # Unset
    /\ LET user_config == yaml_safe_load(files[config_path]) IN
       IF files[config_path].t # "missing" /\ user_config.t # "raise"
          /\ Truthy(user_config) /\ isinstance_dict(user_config)
       THEN /\ reload' = [st |-> "merging", inst |-> i, path |-> config_path,
                          over |-> user_config, n |-> 1,
                          preh |-> heap, pred |-> config[i]]
            /\ lastOp' = [op |-> "load_begin", inst |-> i, path |-> config_path,
                          caught |-> "none", handle |-> "open"]
            /\ UNCHANGED <<heap, config, nOps>>
       ELSE LET r == load_config(heap, config[i], files, config_path) IN
            /\ heap' = r.h
            /\ config' = [config EXCEPT ![i] = r.d]
            /\ lastOp' = [op |-> "load", inst |-> i, path |-> config_path,
                          caught |-> r.caught, handle |-> r.handle]
            /\ nOps' = nOps + 1
            /\ reload' = Idle
    /\ UNCHANGED <<files, mcall, ollama, providerCall>>

\* One iteration of `for key, value in user_config.items()` on self.config
\* (lines 59-63); after the last one load_config leaves the with block and
\* returns.
MergeStep ==
    /\ reload # Idle
    /\ LET i == reload.inst
           key == reload.over.keys[reload.n]
           r == MergeItem(heap, config[i], key, reload.over.val[key])
           last == reload.n = Len(reload.over.keys)
       IN /\ heap' = r.h
          /\ config' = [config EXCEPT ![i] = r.d]
          /\ reload' = IF last THEN Idle ELSE [reload EXCEPT !.n = @ + 1]
          /\ lastOp' = IF last
                       THEN [op |-> "load", inst |-> i, path |-> reload.path,
                             caught |-> "none", handle |-> with_exit("open", "none")]
                       ELSE [op |-> "merge_step", inst |-> i, path |-> reload.path,
                             caught |-> "none", handle |-> "open"]
          /\ nOps' = IF last THEN nOps + 1 ELSE nOps
    /\ UNCHANGED <<files, mcall, ollama, providerCall>>

ReaderNext ==
    \/ \E i \in Instances, p \in ReloadPaths : BeginLoad(i, p)
    \/ MergeStep
    \/ \E i \in Instances, q \in ReaderQueries : Query(i, q)

ReaderSpec == Init /\ [][ReaderNext]_vars

(* -------------------------------- analyze_with_ollama (ollama_provider.py) *)
\* One call of analyze_with_ollama(code, language, model, prompt), one HTTP
\* request per step.  The server answers every request as it likes: it can
\* go down or change its models between two requests.

\* No RuleConfig object is involved.
NoRuleConfig ==
    /\ heap = InitialHeap
    /\ config = [i \in Instances |-> Unset]
    /\ files = [p \in LoadPaths |-> IF p = SavePath THEN Missing ELSE FixtureFiles[p]]
    /\ lastOp = [op |-> "import", inst |-> "none", path |-> NoPath, caught |-> "none",
                 handle |-> "none"]
    /\ nOps = 0
    /\ mcall = Idle
    /\ reload = Idle

\* The `model` arguments.
ModelArgs == {"codellama", "llama3", "gpt-4"}

\* requests raised requests.exceptions.RequestException.
RequestException(kind) == [t |-> "exception", kind |-> kind]

Response(status, body) == [t |-> "response", status |-> status, body |-> body]

\* What GET /api/tags can give: no connection, a timeout, an error status, or
\* 200 with a JSON object that lists models by name or has no "models" key.
TagsResponses ==
    {RequestException(k) : k \in {"ConnectionError", "Timeout"}}
    \cup {Response(s, EmptyDict) : s \in {404, 500}}
    \cup {Response(200, b) : b \in
            {EmptyDict} \cup
            {DictOf(<< <<"models", List(names)>> >>) : names \in
               {<<>>, <<Str("codellama")>>, <<Str("llama3")>>,
                <<Str("codellama"), Str("llama3")>>, <<Str("llama3"), Str("mistral")>>}}}

\* What POST /api/generate can give; the body's "response" text is a JSON
\* object (with or without an "error" key), a JSON list, prose around a JSON
\* object, or prose.
GenerateResponses ==
    {RequestException("ConnectionError"), Response(500, Str("prose"))}
    \cup {Response(200, Str(text)) : text \in
            {"object", "object_with_error", "list", "embedded_object", "prose"}}

\* is_ollama_running (lines 7-13) on the response to its request.
is_ollama_running(resp) ==
    IF resp.t = "exception" THEN FALSE ELSE resp.status = 200

\* Lines 21-28 of get_available_models on the response to its second request.
ModelNamesOf(resp) ==
    IF resp.t = "exception" THEN List(<<>>)
    ELSE IF resp.status = 200
         THEN IF HasKey(resp.body, "models") THEN resp.body.val["models"] ELSE List(<<>>)
         ELSE List(<<>>)

\* Every model passes the test of line 45.
ModelAvailableAlways(model, available_models) == TRUE

\* `model in available_models` (line 45).
ModelAvailable(model, available_models) ==
    Str(model) \in SeqRange(available_models.items)

\* The dict literals the function returns: their keys.
ErrorDict(keys) == [t |-> "dict", keys |-> {"error"} \cup keys]

\* Lines 68-96: what the function returns for the answer to the generate
\* request.
GenerateResult(resp) ==
    IF resp.t = "exception" THEN ErrorDict({"setup_instructions"})
    ELSE IF resp.status # 200 THEN ErrorDict({"details"})
    ELSE CASE resp.body.s = "object" -> [t |-> "dict", keys |-> {"issues", "summary"}]
           [] resp.body.s = "object_with_error" -> [t |-> "dict", keys |-> {"error"}]
           [] resp.body.s = "list" -> [t |-> "list"]
           [] resp.body.s = "embedded_object" -> [t |-> "dict", keys |-> {"issues", "summary"}]
           [] OTHER -> ErrorDict({"raw_response"})

TagsRequest == "GET /api/tags"

GenerateRequest == "POST /api/generate"

Sent(req, resp) == [req |-> req, resp |-> resp]

Returned(call, result) == [call EXCEPT !.pc = "returned", !.result = result]

\* Line 33: the liveness check.
CheckRunning(resp) ==
    /\ ollama # Idle /\ ollama.pc = "liveness"
    /\ LET call == [ollama EXCEPT !.sent = Append(@, Sent(TagsRequest, resp)),
                                  !.running = Bool(is_ollama_running(resp))]
       IN ollama' = IF is_ollama_running(resp)
                    THEN [call EXCEPT !.pc = "models_liveness"]
                    ELSE Returned(call, ErrorDict({"setup_instructions"}))
    /\ UNCHANGED <<heap, config, files, lastOp, nOps, mcall, reload, providerCall>>

\* Lines 44 and 18-19: get_available_models checks liveness again; when the
\* check fails it returns [] and line 45 rejects the model.
ModelsCheckRunning(resp) ==
    /\ ollama # Idle /\ ollama.pc = "models_liveness"
    /\ LET call == [ollama EXCEPT !.sent = Append(@, Sent(TagsRequest, resp))]
       IN ollama' = IF is_ollama_running(resp)
                    THEN [call EXCEPT !.pc = "tags"]
                    ELSE IF ModelAvailable(ollama.model, List(<<>>))
                         THEN [call EXCEPT !.pc = "generate", !.available = List(<<>>)]
                         ELSE Returned([call EXCEPT !.available = List(<<>>)],
                                       ErrorDict({"setup_instructions"}))
    /\ UNCHANGED <<heap, config, files, lastOp, nOps, mcall, reload, providerCall>>

\* Lines 21-28 and 45-52: the model list is fetched and the model looked up.
FetchTags(resp) ==
    /\ ollama # Idle /\ ollama.pc = "tags"
    /\ LET available_models == ModelNamesOf(resp)
           call == [ollama EXCEPT !.sent = Append(@, Sent(TagsRequest, resp)),
                                  !.available = available_models]
       IN ollama' = IF ModelAvailable(ollama.model, available_models)
                    THEN [call EXCEPT !.pc = "generate"]
                    ELSE Returned(call, ErrorDict({"setup_instructions"}))
    /\ UNCHANGED <<heap, config, files, lastOp, nOps, mcall, reload, providerCall>>

\* Lines 55-105: the generate request and what is made of its answer.
Generate(resp) ==
    /\ ollama # Idle /\ ollama.pc = "generate"
    /\ ollama' = Returned([ollama EXCEPT !.sent = Append(@, Sent(GenerateRequest, resp))],
                          GenerateResult(resp))
    /\ UNCHANGED <<heap, config, files, lastOp, nOps, mcall, reload, providerCall>>

OllamaInit ==
    /\ NoRuleConfig
    /\ providerCall = Idle
    /\ \E model \in ModelArgs :
         ollama = [pc |-> "liveness", model |-> model, sent |-> <<>>,
                   running |-> None, available |-> None, result |-> None]

OllamaNext ==
    \/ \E resp \in TagsResponses : CheckRunning(resp)
    \/ \E resp \in TagsResponses : ModelsCheckRunning(resp)
    \/ \E resp \in TagsResponses : FetchTags(resp)
    \/ \E resp \in GenerateResponses : Generate(resp)

OllamaSpec == OllamaInit /\ [][OllamaNext]_vars

(* ------------------------------------------- providers (utils/config.py) *)

\* The keys of PROVIDER_CONFIGS in the order of the literal (lines 17-84).
ProviderNames ==
    <<"OpenAI", "Anthropic", "Ollama", "Google Gemini", "Groq", "Hugging Face", "OpenRouter">>

\* The providers whose api_key is read from the environment (lines 8-13).
KeyedProviders == SeqRange(ProviderNames) \ {"Ollama"}

\* os.getenv(name): None when the variable is not set, otherwise its string,
\* which can be empty.
GetenvValues == {None, Str(""), Str("sk-1")}

\* PROVIDER_CONFIGS[provider]["api_key"] for the environment env.
PROVIDER_CONFIGS(env) ==
    Dict(ProviderNames,
         [name \in SeqRange(ProviderNames) |->
            DictOf(<< <<"api_key", IF name = "Ollama" THEN None ELSE env[name]>> >>)])

\* The `provider` arguments: the known names, a name in another letter case,
\* an unknown name and the empty string.
ProviderArgs == SeqRange(ProviderNames) \cup {"ollama", "Mistral", ""}

\* A key counts only when it is a non-empty string.
validate_api_key_truthy(configs, provider) ==
    IF ~HasKey(configs, provider) THEN FALSE
    ELSE IF provider = "Ollama" THEN TRUE
    ELSE Truthy(configs.val[provider].val["api_key"])

\* validate_api_key (lines 87-96)
validate_api_key(configs, provider) ==
    IF ~HasKey(configs, provider) THEN FALSE
    ELSE IF provider = "Ollama" THEN TRUE
    ELSE configs.val[provider].val["api_key"] # None

\* get_available_providers (lines 99-101)
get_available_providers(configs) ==
    LET names == SelectSeq(configs.keys, LAMBDA name : validate_api_key(configs, name))
    IN List([k \in 1..Len(names) |-> Str(names[k])])

\* validate_api_key(provider) is called.
ValidateApiKey(p) ==
    /\ providerCall # Idle
    /\ providerCall' = [providerCall EXCEPT !.call = "validate_api_key", !.arg = p,
                       !.result = Bool(validate_api_key(PROVIDER_CONFIGS(providerCall.env), p))]
    /\ UNCHANGED <<heap, config, files, lastOp, nOps, mcall, reload, ollama>>

\* get_available_providers() is called.
GetAvailableProviders ==
    /\ providerCall # Idle
    /\ providerCall' = [providerCall EXCEPT !.call = "get_available_providers", !.arg = "",
                       !.result = get_available_providers(PROVIDER_CONFIGS(providerCall.env))]
    /\ UNCHANGED <<heap, config, files, lastOp, nOps, mcall, reload, ollama>>

\* utils/config.py is imported in some environment.
ProviderInit ==
    /\ NoRuleConfig
    /\ ollama = Idle
    /\ \E env \in [KeyedProviders -> GetenvValues] :
         providerCall = [env |-> env, call |-> "import", arg |-> "", result |-> None]

ProviderNext ==
    \/ \E p \in ProviderArgs : ValidateApiKey(p)
    \/ GetAvailableProviders

ProviderSpec == ProviderInit /\ [][ProviderNext]_vars

(* ------------------------------------------------------------------ claims *)

\* C1: the built-in defaults are never modified: DEFAULT_CONFIG equals its
\* literal at every nesting level in every reachable state, and an instance
\* constructed with no path (or a path that does not exist) answers every
\* query as the pure defaults do.
C1_DefaultsNeverModified ==
    /\ Deref(heap, DEFAULT_CONFIG) = BuiltinLiteral
    /\ \A i \in Instances : ConstructedPlain(i) => Answers(Held(i)) = Answers(BuiltinLiteral)

\* C2: a load_config call on instance i leaves the answers of every query on
\* every other live instance j unchanged.
C2_LoadLeavesOtherInstances ==
    [][\A i \in Instances : \A j \in Instances \ {i} :
         (lastOp'.op = "load" /\ lastOp'.inst = i /\ nOps' = nOps + 1 /\ config[j] # Unset)
         => Answers(Deref(heap', config'[j])) = Answers(Deref(heap, config[j]))]_vars

\* C3: a load of a malformed or unreadable file raises nothing to the caller
\* and leaves the instance answering every query as the pure defaults do,
\* whatever was loaded before.
C3_FailedLoadFallsBackToDefaults ==
    \A i \in Instances :
      (lastOp.op \in {"init", "load"} /\ lastOp.inst = i /\ lastOp.caught # "none")
      => Answers(Held(i)) = Answers(BuiltinLiteral)

\* C4: after a successful load the held configuration equals
\* merge(defaults, last override): nothing an earlier override set persists.
C4_LoadReplacesWholesale ==
    \A i \in Instances :
      (lastOp.op \in {"init", "load"} /\ lastOp.inst = i /\ LoadedMapping # None)
      => Held(i) = PureMerge(BuiltinLiteral, LoadedMapping)

\* What C5 says of one call: every key of the override is in the result; where
\* the base has the key and both values are mappings the result there is
\* again such a merge, and everywhere else it is exactly the override's value.
RECURSIVE IsMergeOf(_, _, _)
IsMergeOf(base, over, res) ==
    /\ isinstance_dict(res)
    /\ \A k \in SeqRange(over.keys) :
         /\ HasKey(res, k)
         /\ IF HasKey(base, k) /\ isinstance_dict(base.val[k]) /\ isinstance_dict(over.val[k])
            THEN IsMergeOf(base.val[k], over.val[k], res.val[k])
            ELSE res.val[k] = over.val[k]

SevHighDoc == FixtureFiles["sev_high"].v

\* C5: _merge_configs is a recursive override-wins merge; overriding only the
\* severity of rules.python.python_unused_import to "high" on the defaults
\* gives severity "high" and leaves its enabled flag true.
C5_MergeOverrideWins ==
    mcall.st = "once" =>
      /\ IsMergeOf(mcall.base, mcall.over, mcall.res)
      /\ (mcall.base = BuiltinLiteral /\ mcall.over = SevHighDoc) =>
           /\ get_rule_severity(mcall.res, "python_unused_import", "python", "low") = Str("high")
           /\ is_rule_enabled(mcall.res, "python_unused_import", "python") = Bool(TRUE)

C5_Witness ==
    /\ mcall.st = "once"
    /\ mcall.base = BuiltinLiteral /\ mcall.over = SevHighDoc
    /\ mcall.res # mcall.base

\* What C6 says of one call: a key of the base the override does not have
\* keeps its value; below a key both have as mappings the same holds again; a
\* key the override replaces is not constrained.
RECURSIVE Untouched(_, _, _)
Untouched(base, over, res) ==
    /\ isinstance_dict(res)
    /\ \A k \in SeqRange(base.keys) :
         /\ HasKey(res, k)
         /\ IF ~HasKey(over, k)
            THEN res.val[k] = base.val[k]
            ELSE (isinstance_dict(base.val[k]) /\ isinstance_dict(over.val[k]))
                 => Untouched(base.val[k], over.val[k], res.val[k])

\* C6: a merge leaves untouched every key path of the base the override does
\* not mention; top-level sections absent from the override keep their
\* default values.
C6_MergeLeavesRest ==
    mcall.st = "once" =>
      /\ Untouched(mcall.base, mcall.over, mcall.res)
      /\ \A k \in SeqRange(mcall.base.keys) :
           ~HasKey(mcall.over, k) => mcall.res.val[k] = mcall.base.val[k]

C6_Witness ==
    /\ mcall.st = "once"
    /\ mcall.base = BuiltinLiteral
    /\ mcall.over = FixtureFiles["sql_off"].v
    /\ mcall.res # mcall.base
    /\ mcall.res.val["categories"] = DefaultCategories
    /\ mcall.res.val["rules"].val["javascript"] = DefaultRules.val["javascript"]

\* C7: an override that gives a non-mapping value for a key whose default is a
\* mapping loads without error, and the value at that key afterwards is the
\* override's value wholesale.
C7_NonMappingReplaces ==
    \A i \in Instances :
      (lastOp.op \in {"init", "load"} /\ lastOp.inst = i) =>
        /\ lastOp.path = "python_disabled" =>
             /\ lastOp.caught = "none"
             /\ PyGetItem(PyGetItem(Held(i), "rules"), "python") = Str("disabled")
        /\ lastOp.path = "rules_none" =>
             /\ lastOp.caught = "none"
             /\ PyGetItem(Held(i), "rules") = Str("none")

C7_Witness ==
    /\ lastOp.op = "load" /\ lastOp.path = "python_disabled" /\ lastOp.caught = "none"
    /\ Held(lastOp.inst).val["rules"].val["python"] = Str("disabled")
    /\ Held(lastOp.inst).val["rules"].val["javascript"] = DefaultRules.val["javascript"]

\* C8: merging is idempotent: the same override applied a second time leaves
\* the configuration exactly as the first application left it.
C8_MergeIdempotent ==
    mcall.st = "twice" => mcall.res = mcall.prev

C8_Witness ==
    /\ mcall.st = "twice"
    /\ mcall.prev # mcall.base
    /\ mcall.res = mcall.prev

\* C9: saving any reachable configuration cfg and constructing a new
\* RuleConfig from the saved file gives an instance that answers every rule,
\* category, weight and enabled-rules query as cfg does.
C9_SaveLoadRoundTrip ==
    [][\A i \in Instances : \A j \in Instances \ {i} :
         ( /\ config[j] # Unset
           /\ files[SavePath] = yaml_dump(Held(j))
           /\ config[i] = Unset /\ config'[i] # Unset
           /\ lastOp'.path = SavePath )
         => Answers(Deref(heap', config'[i])) = Answers(Held(j))]_vars

\* The (language, rule) slot exists: the rule table is a mapping with a bucket
\* for the lowercased language, and the bucket is a mapping with the rule.
BucketHasRule(cfg, rule_name, language) ==
    /\ isinstance_dict(cfg.val["rules"])
    /\ HasKey(cfg.val["rules"], Lower(language))
    /\ isinstance_dict(cfg.val["rules"].val[Lower(language)])
    /\ HasKey(cfg.val["rules"].val[Lower(language)], rule_name)

RuleSettings(cfg, rule_name, language) ==
    cfg.val["rules"].val[Lower(language)].val[rule_name]

\* C10: is_rule_enabled returns the stored `enabled` flag whenever the
\* language bucket exists and contains the rule, and true in every other case.
C10_IsRuleEnabled ==
    \A i \in Instances : config[i] # Unset =>
      \A r \in QueryRules, l \in QueryLanguages :
        is_rule_enabled(Held(i), r, l) =
          IF /\ BucketHasRule(Held(i), r, l)
             /\ isinstance_dict(RuleSettings(Held(i), r, l))
             /\ HasKey(RuleSettings(Held(i), r, l), "enabled")
          THEN RuleSettings(Held(i), r, l).val["enabled"]
          ELSE Bool(TRUE)

\* C11: get_rule_severity returns the severity stored for (lowercased
\* language, rule) whenever that rule is configured, whatever the default
\* argument, and otherwise the default argument unchanged.
C11_GetRuleSeverity ==
    \A i \in Instances : config[i] # Unset =>
      \A r \in QueryRules, l \in QueryLanguages, d \in QueryDefaults :
        get_rule_severity(Held(i), r, l, d) =
          IF /\ BucketHasRule(Held(i), r, l)
             /\ isinstance_dict(RuleSettings(Held(i), r, l))
             /\ HasKey(RuleSettings(Held(i), r, l), "severity")
          THEN RuleSettings(Held(i), r, l).val["severity"]
          ELSE Str(d)

\* A document names the rule under the language (in any letter case).
Mentions(doc, rule_name, language) ==
    /\ HasKey(doc, "rules") /\ isinstance_dict(doc.val["rules"])
    /\ \E k \in SeqRange(doc.val["rules"].keys) :
         /\ Lower(k) = Lower(language)
         /\ isinstance_dict(doc.val["rules"].val[k])
         /\ HasKey(doc.val["rules"].val[k], rule_name)

\* The (rule, language) pair is in neither the defaults nor any override file.
NeverConfigured(rule_name, language) ==
    \A doc \in {BuiltinLiteral} \cup FixtureMappings : ~Mentions(doc, rule_name, language)

\* C12: for every (rule, language) pair in neither the defaults nor any loaded
\* override, is_rule_enabled returns true, get_rule_severity returns the
\* caller's default and get_enabled_rules(language) does not contain the rule.
C12_FailOpenUnconfigured ==
    \A i \in Instances : config[i] # Unset =>
      \A r \in QueryRules, l \in QueryLanguages :
        NeverConfigured(r, l) =>
          /\ is_rule_enabled(Held(i), r, l) = Bool(TRUE)
          /\ \A d \in QueryDefaults : get_rule_severity(Held(i), r, l, d) = Str(d)
          /\ LET listed == get_enabled_rules(Held(i), l) IN
             listed.t = "list" => Str(r) \notin SeqRange(listed.items)

\* C13: is_category_enabled looks the category up by its exact name: the
\* stored `enabled` flag when the name is a key of the category table, true
\* for every other name, letter-case variants of a configured name included.
C13_IsCategoryEnabled ==
    \A i \in Instances : config[i] # Unset =>
      \A c \in QueryCategories :
        LET categories == Held(i).val["categories"] IN
        is_category_enabled(Held(i), c) =
          IF /\ isinstance_dict(categories) /\ HasKey(categories, c)
             /\ isinstance_dict(categories.val[c]) /\ HasKey(categories.val[c], "enabled")
          THEN categories.val[c].val["enabled"]
          ELSE Bool(TRUE)

\* C14: under the default weights get_rating_weight maps critical, high,
\* medium and low, in any letter case, to 2.0, 1.0, 0.5 and 0.2, and every
\* other severity string to 0.2.
C14_DefaultWeights ==
    \A i \in Instances : config[i] # Unset =>
      \A cfg \in {Held(i)} :
        cfg.val["rating_weights"] = DefaultRatingWeights =>
          /\ \A v \in {"critical", "Critical"} : get_rating_weight(cfg, v) = Num(20)
          /\ \A v \in {"high", "HIGH"} : get_rating_weight(cfg, v) = Num(10)
          /\ \A v \in {"medium", "MEDIUM"} : get_rating_weight(cfg, v) = Num(5)
          /\ \A v \in {"low", "Low"} : get_rating_weight(cfg, v) = Num(2)
          /\ \A v \in {"blocker", "info", ""} : get_rating_weight(cfg, v) = Num(2)

C14_Witness ==
    /\ lastOp.op = "load" /\ lastOp.path = "sev_high" /\ lastOp.caught = "none"
    /\ Held(lastOp.inst).val["rating_weights"] = DefaultRatingWeights
    /\ get_rating_weight(Held(lastOp.inst), "HIGH") = Num(10)
    /\ get_rating_weight(Held(lastOp.inst), "blocker") = Num(2)

\* C15: in every effective configuration a severity that is not in the weight
\* map gets the configuration's own `low` weight:
\* get_rating_weight(severity) = get_rating_weight("low").
C15_UnknownSeverityGetsLowWeight ==
    \A i \in Instances : config[i] # Unset =>
      \A v \in {"blocker", "info"} :
        get_rating_weight(Held(i), v) = get_rating_weight(Held(i), "low")

\* The names of the bucket's rules whose entry holds enabled = true, in the
\* bucket's order.
RECURSIVE EnabledNames(_, _)
EnabledNames(bucket, n) ==
    IF n > Len(bucket.keys) THEN <<>>
    ELSE LET settings == bucket.val[bucket.keys[n]] IN
         (IF isinstance_dict(settings) /\ HasKey(settings, "enabled")
             /\ settings.val["enabled"] = Bool(TRUE)
          THEN <<Str(bucket.keys[n])>> ELSE <<>>) \o EnabledNames(bucket, n + 1)

\* C16: get_enabled_rules returns, in the rule table's order, exactly the
\* rule names of the lowercased language's bucket whose enabled flag is true,
\* and an empty list for a language with no bucket.
C16_GetEnabledRules ==
    \A i \in Instances : config[i] # Unset =>
      \A l \in QueryLanguages :
        LET rules == Held(i).val["rules"] IN
        get_enabled_rules(Held(i), l) =
          IF /\ isinstance_dict(rules) /\ HasKey(rules, Lower(l))
             /\ isinstance_dict(rules.val[Lower(l)])
          THEN List(EnabledNames(rules.val[Lower(l)], 1))
          ELSE List(<<>>)

\* Language arguments paired with a letter-case variant of them.
LanguageSpellings ==
    {<<"Python", "python">>, <<"PYTHON", "python">>, <<"JavaScript", "javascript">>}

\* C17: is_rule_enabled, get_rule_severity and get_enabled_rules give the same
\* result for a language and for every letter-case variant of it; with the
\* default configuration is_rule_enabled("python_sql_injection", "Python") is
\* true, get_rule_severity("python_sql_injection", "Python", "low") is
\* "critical" and get_rating_weight("critical") is 2.0.
C17_LanguageCaseInsensitive ==
    \A i \in Instances : config[i] # Unset =>
      \A cfg \in {Held(i)} :
        /\ \A l \in LanguageSpellings :
             /\ get_enabled_rules(cfg, l[1]) = get_enabled_rules(cfg, l[2])
             /\ \A r \in QueryRules :
                  /\ is_rule_enabled(cfg, r, l[1]) = is_rule_enabled(cfg, r, l[2])
                  /\ get_rule_severity(cfg, r, l[1], "info") = get_rule_severity(cfg, r, l[2], "info")
        /\ cfg = BuiltinLiteral =>
             /\ is_rule_enabled(cfg, "python_sql_injection", "Python") = Bool(TRUE)
             /\ get_rule_severity(cfg, "python_sql_injection", "Python", "low") = Str("critical")
             /\ get_rating_weight(cfg, "critical") = Num(20)

C17_Witness ==
    /\ lastOp.op = "load" /\ lastOp.path = "custom_rules" /\ lastOp.caught = "none"
    /\ get_enabled_rules(Held(lastOp.inst), "PYTHON").t = "list"
    /\ Str("zeta_rule") \in SeqRange(get_enabled_rules(Held(lastOp.inst), "PYTHON").items)
    /\ \E j \in Instances : config[j] # Unset /\ Held(j).val["rating_weights"] = DefaultRatingWeights
    /\ get_rule_severity(Held(lastOp.inst), "python_sql_injection", "Python", "low") = Str("critical")

\* C18: an override that sets a rule's enabled flag under a language key that
\* differs from the bucket name only in letter case (`Python` for `python`)
\* takes effect: is_rule_enabled for that rule and language returns the
\* overridden value.
C18_OverrideLanguageCaseInsensitive ==
    \A i \in Instances :
      (lastOp.op \in {"init", "load"} /\ lastOp.inst = i
         /\ lastOp.path = "python_case" /\ lastOp.caught = "none")
      => \A l \in {"python", "Python"} :
           is_rule_enabled(Held(i), "python_except_pass", l) = Bool(FALSE)

\* C19: no query ever raises: in every configuration reached by loading
\* override documents that parse to a mapping, each of the five queries
\* returns a value for all string arguments.
C19_NoQueryRaises ==
    \A i \in Instances : config[i] # Unset =>
      /\ \A r \in QueryRules, l \in QueryLanguages :
           /\ is_rule_enabled(Held(i), r, l).t # "raise"
           /\ \A d \in QueryDefaults : get_rule_severity(Held(i), r, l, d).t # "raise"
      /\ \A c \in QueryCategories : is_category_enabled(Held(i), c).t # "raise"
      /\ \A v \in QuerySeverities : get_rating_weight(Held(i), v).t # "raise"
      /\ \A l \in QueryLanguages : get_enabled_rules(Held(i), l).t # "raise"

SeverityNames == {Str("critical"), Str("high"), Str("medium"), Str("low")}

\* C20: in every reachable effective configuration every rule's severity is
\* one of critical, high, medium, low, so get_rule_severity on a configured
\* rule returns a member of that set.
C20_ClosedSeveritySet ==
    \A i \in Instances : config[i] # Unset =>
      \A r \in QueryRules, l \in QueryLanguages :
        ( /\ BucketHasRule(Held(i), r, l)
          /\ isinstance_dict(RuleSettings(Held(i), r, l))
          /\ HasKey(RuleSettings(Held(i), r, l), "severity") )
        => /\ RuleSettings(Held(i), r, l).val["severity"] \in SeverityNames
           /\ get_rule_severity(Held(i), r, l, "low") \in SeverityNames

\* C21: in every effective configuration reached by loading override
\* documents, rating_weights is a mapping that gives a weight for each of
\* critical, high, medium and low.
C21_TotalWeightMap ==
    \A i \in Instances : config[i] # Unset =>
      \A weights \in {Held(i).val["rating_weights"]} :
        /\ isinstance_dict(weights)
        /\ \A v \in {"critical", "high", "medium", "low"} :
             HasKey(weights, v) /\ weights.val[v].t = "num"

\* C24: save_config never changes the in-memory configuration, whether the
\* write succeeds or open() fails (the handler catches the exception, nothing
\* reaches the caller): the heap and every self.config are the same objects
\* with the same contents, and every query answers as before the call.
C24_SaveLeavesConfig ==
    [][\A i \in Instances :
         (lastOp'.op = "save" /\ lastOp'.inst = i /\ nOps' = nOps + 1) =>
           /\ lastOp'.caught \in {"none", "FileNotFoundError"}
           /\ heap' = heap
           /\ config' = config
           /\ Answers(Deref(heap', config'[i])) = Answers(Held(i))]_vars

C24_Witness ==
    /\ lastOp.op = "save" /\ lastOp.path = BadSavePath
    /\ lastOp.caught = "FileNotFoundError"
    /\ Held(lastOp.inst) # BuiltinLiteral
    /\ files[SavePath].t = "text"

\* C25: after the constructor, load_config or save_config returns - on
\* success, on a failed open, on a parse failure - no file object the call
\* opened is still open.
C25_FileHandleReleased ==
    lastOp.op \in {"init", "load", "save"} =>
      lastOp.handle # "open"

C25_Witness ==
    /\ lastOp.op = "load" /\ lastOp.path = "malformed"
    /\ lastOp.caught = "YAMLError"
    /\ lastOp.handle = "closed"

\* C26: a load_config that cannot open or parse its file leaves the held
\* configuration exactly as it was before the call: overrides of earlier
\* loads stay in force.
C26_FailedLoadKeepsState ==
    [][\A i \in Instances :
         (lastOp'.op = "load" /\ lastOp'.inst = i /\ nOps' = nOps + 1
            /\ lastOp'.caught # "none")
         => /\ heap' = heap
            /\ config' = config
            /\ Deref(heap', config'[i]) = Held(i)]_vars

C26_Witness ==
    /\ lastOp.op = "load" /\ lastOp.path = "malformed" /\ lastOp.caught = "YAMLError"
    /\ Held(lastOp.inst).val["rules"] = Str("none")

\* The file at the path parses, but not to a non-empty mapping.
IgnoredDocument(path) ==
    /\ files[path].t = "text"
    /\ \/ files[path].v.t \in {"none", "list", "str", "num", "bool"}
       \/ files[path].v.t = "dict" /\ Len(files[path].v.keys) = 0

\* C27: a load_config of a document that parses but is not a non-empty
\* mapping (empty file, empty mapping, list, scalar) merges nothing, hits no
\* exception and leaves the held configuration unchanged.
C27_NonMappingDocumentIgnored ==
    [][\A i \in Instances :
         (lastOp'.op = "load" /\ lastOp'.inst = i /\ nOps' = nOps + 1
            /\ IgnoredDocument(lastOp'.path))
         => /\ lastOp'.caught = "none"
            /\ heap' = heap
            /\ config' = config]_vars

C27_Witness ==
    /\ lastOp.op = "load" /\ lastOp.path = "list_doc" /\ lastOp.caught = "none"
    /\ nOps >= 2
    /\ Held(lastOp.inst) # BuiltinLiteral

\* C28: wherever get_enabled_rules and is_rule_enabled both return, for a
\* language with a bucket: a rule name is in get_enabled_rules(language)
\* exactly when it is a key of the bucket and is_rule_enabled is truthy.
C28_EnabledRulesAgree ==
    \A i \in Instances : config[i] # Unset =>
      \A cfg \in {Held(i)} : \A l \in QueryLanguages :
        \A listed \in {get_enabled_rules(cfg, l)} :
          ( /\ listed.t = "list"
            /\ isinstance_dict(cfg.val["rules"])
            /\ HasKey(cfg.val["rules"], Lower(l)) )
          => \A r \in QueryRules : \A e \in {is_rule_enabled(cfg, r, l)} :
               e.t # "raise" =>
                 ( Str(r) \in SeqRange(listed.items)
                   <=> (HasKey(cfg.val["rules"].val[Lower(l)], r) /\ Truthy(e)) )

C28_Witness ==
    /\ lastOp.op = "load" /\ lastOp.path = "sql_off" /\ lastOp.caught = "none"
    /\ get_enabled_rules(Held(lastOp.inst), "Python").t = "list"
    /\ Str("python_sql_injection") \notin SeqRange(get_enabled_rules(Held(lastOp.inst), "Python").items)
    /\ Str("python_unused_import") \in SeqRange(get_enabled_rules(Held(lastOp.inst), "Python").items)
    /\ is_rule_enabled(Held(lastOp.inst), "python_sql_injection", "Python") = Bool(FALSE)

\* C22: the five queries are pure reads: a query step changes neither the
\* held configuration of any object nor DEFAULT_CONFIG (the heap objects) nor
\* any file, and the same query asked again on the state the query left
\* returns the result it just returned.
C22_QueriesArePureReads ==
    [][(lastOp'.op = "query" /\ lastOp' # lastOp) =>
         /\ heap' = heap
         /\ config' = config
         /\ files' = files
         /\ Call(Deref(heap', config'[lastOp'.inst]), lastOp'.q) = lastOp'.result]_vars

C22_Witness ==
    /\ lastOp.op = "query" /\ lastOp.q = [f |-> "is_rule_enabled", a |-> <<"ruby_eval", "ruby">>]
    /\ lastOp.result = Bool(TRUE)
    /\ nOps = 1
    /\ Held(lastOp.inst).val["rating_weights"].val["low"] = Num(5)

\* The configuration the load in progress started from, and the one it ends
\* with.
PreLoad == Deref(reload.preh, reload.pred)

PostLoad ==
    LET r == merge_configs(reload.preh, reload.pred, reload.over) IN Deref(r.h, r.d)

\* C23: while load_config runs on an object, a reader of that object sees the
\* complete configuration of before the load or the complete one of after it,
\* never one with part of the document's keys applied.
C23_ReloadAtomic ==
    reload # Idle =>
      \A cfg \in {Held(reload.inst)} : cfg = PreLoad \/ cfg = PostLoad

GenerateSent ==
    \E k \in 1..Len(ollama.sent) : ollama.sent[k].req = GenerateRequest

\* C29: analyze_with_ollama sends the generate request only after the
\* liveness check succeeded and, after that, the model was found in the list
\* get_available_models returned; when either check fails it returns a dict
\* with an "error" key and has sent no generate request.
C29_GenerateOnlyAfterChecks ==
    ollama # Idle =>
      /\ \A k \in 1..Len(ollama.sent) :
           ollama.sent[k].req = GenerateRequest =>
             /\ k > 1
             /\ \A j \in 1..(k - 1) : ollama.sent[j].req = TagsRequest
             /\ ollama.sent[1].resp.t = "response" /\ ollama.sent[1].resp.status = 200
             /\ ollama.running = Bool(TRUE)
             /\ ollama.available.t = "list"
             /\ Str(ollama.model) \in SeqRange(ollama.available.items)
      /\ ( /\ ollama.pc = "returned"
           /\ \/ ollama.running = Bool(FALSE)
              \/ /\ ollama.available.t = "list"
                 /\ Str(ollama.model) \notin SeqRange(ollama.available.items) )
         => /\ ollama.result.t = "dict"
            /\ "error" \in ollama.result.keys
            /\ ~GenerateSent

C29_Witness ==
    /\ ollama # Idle
    /\ ollama.pc = "returned"
    /\ GenerateSent
    /\ Len(ollama.sent) = 4
    /\ ollama.model = "llama3"
    /\ ollama.result = [t |-> "dict", keys |-> {"issues", "summary"}]

\* C30: validate_api_key is false for every name not in PROVIDER_CONFIGS,
\* true for "Ollama" whatever the keys, and for every other known provider
\* true exactly when its api_key is not None; get_available_providers returns
\* exactly the known providers validate_api_key accepts, in table order, and
\* so always contains "Ollama".
C30_ProviderAvailability ==
    providerCall # Idle =>
      /\ providerCall.call = "validate_api_key" =>
           providerCall.result =
             Bool(CASE providerCall.arg \notin SeqRange(ProviderNames) -> FALSE
                    [] providerCall.arg = "Ollama" -> TRUE
                    [] OTHER -> providerCall.env[providerCall.arg].t # "none")
      /\ providerCall.call = "get_available_providers" =>
           /\ providerCall.result.t = "list"
           /\ Str("Ollama") \in SeqRange(providerCall.result.items)
           /\ \A item \in SeqRange(providerCall.result.items) :
                item.t = "str" /\ item.s \in SeqRange(ProviderNames)
           /\ \A name \in SeqRange(ProviderNames) :
                Str(name) \in SeqRange(providerCall.result.items)
                  <=> (name = "Ollama" \/ providerCall.env[name].t # "none")
           /\ \A a, b \in 1..Len(providerCall.result.items) :
                a < b =>
                  \E x, y \in 1..Len(ProviderNames) :
                    /\ x < y
                    /\ Str(ProviderNames[x]) = providerCall.result.items[a]
                    /\ Str(ProviderNames[y]) = providerCall.result.items[b]

C30_Witness ==
    /\ providerCall # Idle
    /\ providerCall.call = "get_available_providers"
    /\ providerCall.env["OpenAI"] = None
    /\ providerCall.env["Groq"] = Str("")
    /\ providerCall.env["OpenRouter"] = Str("sk-1")
    /\ providerCall.env["Anthropic"] = None
    /\ providerCall.env["Google Gemini"] = None
    /\ providerCall.env["Hugging Face"] = None
    /\ providerCall.result = List(<<Str("Ollama"), Str("Groq"), Str("OpenRouter")>>)

====
